---------------------------- MODULE Spec2Model ----------------------------
(***************************************************************************)
(* Model of the Cross-Chain Flows page (src/pages/3_...Cross-Chain_Flows.py)*)
(* of the Axelarscan dashboard: the bubble layout engine pack_bubbles, the *)
(* bubble size mapping bubble_size_category and the page logic around them.*)
(*                                                                         *)
(* Floating point numbers are modelled in fixed point: the real number 1.0 *)
(* is Unit grid steps.  IEEE NaN (the result of 0/0) is the value NaN; it  *)
(* propagates through arithmetic and makes every comparison false, as in   *)
(* numpy.  The numpy global random generator is the variable rng: a seed   *)
(* and the number of draws taken so far; the k-th draw of a seed is a      *)
(* fixed function of (seed, k).  Sequences are 1-based: item i of the      *)
(* model is index i-1 of the code.                                         *)
(***************************************************************************)
EXTENDS Integers, Sequences, FiniteSets, TLC

VARIABLES
    pc,          \* "idle", "table", "sized", "loop", "pair", "clip", "done", "raised"
    sizes,       \* argument sizes of pack_bubbles
    iterations,  \* argument iterations of pack_bubbles
    positions,   \* local positions
    radii,       \* local radii
    pass,        \* passes completed (the loop variable _)
    i, j,        \* loop variables i and j (1-based)
    rng,         \* state of the numpy global generator
    ret,         \* the value returned by the last call that returned
    df,          \* columns of the page's df_comb_sorted
    hist,        \* history: the generator state on entry of the running call
                 \* and, for a repeated call, what the first call returned
    work,        \* history of the current pass: the pairs examined so far in
                 \* order, the pairs pushed, the positions the pass began with,
                 \* and whether the last completed pass pushed no pair
    page         \* the page script: run_button, the outcome of the request,
                 \* data, whether compute_volumes was called, the message shown

vars == <<pc, sizes, iterations, positions, radii, pass, i, j, rng, ret, df, hist,
          work, page>>


\* ------------------------------------------------------------- bounds ----
\* largest number of items handed to pack_bubbles
MaxN == 3
\* largest iteration budget handed to pack_bubbles
MaxIter == 3
\* period of the modelled random stream: draw k of a seed is digit
\* (k mod TapeLen) of the seed written in base Len(DrawVals)
TapeLen == 4
\* numerical tolerance (in grid steps) of the no-overlap property
Eps == 2

\* ------------------------------------------------------- fixed point ----
\* 1.0 in grid steps (the canvas is [0,1] x [0,1])
Unit == 10000
\* IEEE not-a-number
NaN == -99999999

IsNaN(v) == v = NaN

Abs(v) == IF v < 0 THEN -v ELSE v

\* a / b rounded to the nearest integer (b > 0), as a float division rounds
RoundDiv(a, b) == IF a >= 0 THEN (2 * a + b) \div (2 * b)
                            ELSE -((2 * (-a) + b) \div (2 * b))

RECURSIVE IsqrtIter(_, _, _)
IsqrtIter(s, lo, hi) ==
    IF lo >= hi THEN lo
    ELSE LET mid == (lo + hi + 1) \div 2
         IN IF mid * mid <= s THEN IsqrtIter(s, mid, hi)
                              ELSE IsqrtIter(s, lo, mid - 1)

\* floor of the square root: Isqrt(s) < m  <=>  sqrt(s) < m for integer m
Isqrt(s) == IsqrtIter(s, 0, 3 * Unit)

RECURSIVE FineScale(_, _)
\* the largest power of two f with s * f * f <= 20 * Unit * Unit, so that the
\* root of s can be taken in steps of 1/f of a grid step (s >= 1)
FineScale(s, f) ==
    IF s * f * f > 5 * Unit * Unit THEN f ELSE FineScale(s, 2 * f)

\* np.hypot(dx, dy) of a vector that is not zero, in steps of 1/scale of a
\* grid step: a float keeps the fraction of the root
HypotFine(dx, dy) ==
    LET s == dx * dx + dy * dy
        f == FineScale(s, 1)
    IN [root |-> IsqrtIter(s * f * f, 0, 4 * Unit + 6 * (Unit \div 10)), scale |-> f]

\* np.hypot(dx, dy)
Hypot(dx, dy) == IF IsNaN(dx) \/ IsNaN(dy) THEN NaN ELSE Isqrt(dx * dx + dy * dy)

\* a - b on floats
FSub(a, b) == IF IsNaN(a) \/ IsNaN(b) THEN NaN ELSE a - b

\* a + b on floats
FAdd(a, b) == IF IsNaN(a) \/ IsNaN(b) THEN NaN ELSE a + b

\* a < b on floats: false when either side is NaN
FLess(a, b) == ~IsNaN(a) /\ ~IsNaN(b) /\ a < b

\* a >= b on floats: false when either side is NaN
FGeq(a, b) == ~IsNaN(a) /\ ~IsNaN(b) /\ a >= b

RECURSIVE Pow(_, _)
Pow(b, e) == IF e = 0 THEN 1 ELSE b * Pow(b, e - 1)

RECURSIVE SeqMax(_)
SeqMax(s) == IF Len(s) = 1 THEN s[1]
             ELSE LET m == SeqMax(Tail(s)) IN IF s[1] > m THEN s[1] ELSE m

\* ---------------------------------------------------- random stream ----
\* the values np.random.rand can return, in sixteenths of 1.0:
\* 0.0, 0.5 and 0.5625
DrawDen == 16
DrawVals == <<0, 8, 9>>

Seeds == 0 .. (Pow(Len(DrawVals), TapeLen) - 1)

\* the k-th number (k = 0, 1, ...) the generator seeded with seed returns,
\* in sixteenths
Draw(seed, k) ==
    DrawVals[((seed \div Pow(Len(DrawVals), k % TapeLen)) % Len(DrawVals)) + 1]

\* the generator after taking c more draws
Advance(r, c) == [seed |-> r.seed, k |-> (r.k + c) % TapeLen]

\* the generator is seeded afresh for a repeated call
NextDraw_Reseeded(r, c) == Draw(r.seed + (IF hist.again THEN 1 ELSE 0), r.k + c)

\* the c-th next number of generator r (c = 0 is the next one)
NextDraw(r, c) == Draw(r.seed, r.k + c)

\* ------------------------------------------------------ pack_bubbles ----
\* min_dist padding 0.005
Padding == (5 * Unit) \div 1000

\* np.random.rand(n,2)*0.8+0.1 : one coordinate from one draw
InitCoord(u) == (u * 8 * Unit) \div (10 * DrawDen) + Unit \div 10

\* positions = np.random.rand(n,2)*0.8+0.1 (row-major draws)
InitPositions(n, r) ==
    [k \in 1 .. n |-> <<InitCoord(NextDraw(r, 2 * (k - 1))),
                        InitCoord(NextDraw(r, 2 * (k - 1) + 1))>>]

\* radii = sizes/2/np.max(sizes)*0.1 ; 0/0 is NaN (numpy warns, does not raise)
Radii(szs) ==
    LET mx == SeqMax(szs)
    IN [k \in 1 .. Len(szs) |->
          IF mx = 0 THEN NaN ELSE RoundDiv(szs[k] * Unit, 20 * mx)]

\* min_dist = radii[i]+radii[j]+0.005
MinDist(rad, a, b) == FAdd(FAdd(rad[a], rad[b]), Padding)

\* dist = np.hypot(positions[j]-positions[i])
Dist(pos, a, b) == Hypot(FSub(pos[b][1], pos[a][1]), FSub(pos[b][2], pos[a][2]))

\* if dist < min_dist
Overlaps(pos, rad, a, b) == FLess(Dist(pos, a, b), MinDist(rad, a, b))

\* np.random.rand(2)-0.5 : one component from one draw
TieCoord(u) == (u * Unit) \div DrawDen - Unit \div 2

\* each item of an overlapping pair is moved by the whole deficit, not by
\* half of it
Pushed_FullShift(pos, rad, a, b, r) ==
      LET dist0 == Dist(pos, a, b)
          tie == dist0 = 0
          dx == IF tie THEN TieCoord(NextDraw(r, 0)) ELSE pos[b][1] - pos[a][1]
          dy == IF tie THEN TieCoord(NextDraw(r, 1)) ELSE pos[b][2] - pos[a][2]
          zero == dx = 0 /\ dy = 0
          dist == HypotFine(dx, dy)
          r2 == IF tie THEN Advance(r, 2) ELSE r
          md == MinDist(rad, a, b)
          \* dx/dist*shift with shift = (min_dist-dist)/2 ; 0/0 is NaN
          offx == IF zero THEN NaN
                  ELSE RoundDiv(dx * (dist.scale * md - dist.root), dist.root)
          offy == IF zero THEN NaN
                  ELSE RoundDiv(dy * (dist.scale * md - dist.root), dist.root)
      IN [pos |-> [pos EXCEPT
                     ![a] = <<FSub(pos[a][1], offx), FSub(pos[a][2], offy)>>,
                     ![b] = <<FAdd(pos[b][1], offx), FAdd(pos[b][2], offy)>>],
          rng |-> r2]

\* lines 127-132: the positions and the generator after the overlapping pair
\* (a, b) has been pushed
Pushed(pos, rad, a, b, r) ==
      LET dist0 == Dist(pos, a, b)
          tie == dist0 = 0
          dx == IF tie THEN TieCoord(NextDraw(r, 0)) ELSE pos[b][1] - pos[a][1]
          dy == IF tie THEN TieCoord(NextDraw(r, 1)) ELSE pos[b][2] - pos[a][2]
          zero == dx = 0 /\ dy = 0
          dist == HypotFine(dx, dy)
          r2 == IF tie THEN Advance(r, 2) ELSE r
          md == MinDist(rad, a, b)
          \* dx/dist*shift with shift = (min_dist-dist)/2 ; 0/0 is NaN
          offx == IF zero THEN NaN
                  ELSE RoundDiv(dx * (dist.scale * md - dist.root), 2 * dist.root)
          offy == IF zero THEN NaN
                  ELSE RoundDiv(dy * (dist.scale * md - dist.root), 2 * dist.root)
      IN [pos |-> [pos EXCEPT
                     ![a] = <<FSub(pos[a][1], offx), FSub(pos[a][2], offy)>>,
                     ![b] = <<FAdd(pos[b][1], offx), FAdd(pos[b][2], offy)>>],
          rng |-> r2]

\* every pair whose distance is a number is moved, overlapping or not
PushPair_Always(pos, rad, a, b, r) ==
    IF IsNaN(Dist(pos, a, b)) \/ IsNaN(MinDist(rad, a, b)) THEN [pos |-> pos, rng |-> r]
    ELSE Pushed(pos, rad, a, b, r)

\* lines 126-132: the positions and the generator after the pair (a, b) has
\* been examined
PushPair(pos, rad, a, b, r) ==
    IF ~Overlaps(pos, rad, a, b) THEN [pos |-> pos, rng |-> r]
    ELSE Pushed(pos, rad, a, b, r)

\* np.clip(v, 0, 1) of one number: NaN stays NaN
ClipCoord(v) == IF IsNaN(v) THEN NaN ELSE IF v < 0 THEN 0 ELSE IF v > Unit THEN Unit ELSE v

\* positions=np.clip(positions,0,1)
Clip(pos) == [k \in DOMAIN pos |-> <<ClipCoord(pos[k][1]), ClipCoord(pos[k][2])>>]

\* ----------------------------------------------- bubble_size_category ----
\* the upper limits of the if-chain of bubble_size_category, in order
Thresholds ==
    <<10, 100, 1000, 10000, 100000,
      200000, 400000, 600000, 800000, 1000000,
      2000000, 4000000, 6000000, 8000000, 10000000,
      12000000, 14000000, 16000000, 18000000, 20000000,
      25000000, 30000000, 35000000, 40000000, 45000000, 50000000,
      60000000, 70000000, 80000000, 90000000, 100000000,
      110000000, 120000000, 130000000, 140000000, 150000000,
      160000000, 170000000, 180000000, 190000000>>

\* the same table with the return values of two neighbouring branches
\* exchanged (99 and 100)
SizeTable_Swapped ==
    <<20, 30, 40, 50, 60,
      62, 64, 66, 68, 70,
      72, 74, 76, 78, 80,
      82, 84, 86, 88, 90,
      92, 94, 96, 98, 100, 99,
      110, 120, 130, 135, 140,
      145, 150, 155, 160, 165,
      170, 175, 180, 185>>

\* the value each branch of the if-chain returns, in order
SizeTable ==
    <<20, 30, 40, 50, 60,
      62, 64, 66, 68, 70,
      72, 74, 76, 78, 80,
      82, 84, 86, 88, 90,
      92, 94, 96, 98, 99, 100,
      110, 120, 130, 135, 140,
      145, 150, 155, 160, 165,
      170, 175, 180, 185>>

\* the value of the final else branch
LargestSize == 190

RECURSIVE Branch(_, _)
\* the first branch, from branch b on, whose condition abs_v < limit holds
Branch(abs_v, b) ==
    IF b > Len(Thresholds) THEN b
    ELSE IF abs_v < Thresholds[b] THEN b ELSE Branch(abs_v, b + 1)

\* a negative net volume is clamped to zero before the if-chain
bubble_size_category_Clamped(v) ==
    LET b == Branch(IF v < 0 THEN 0 ELSE v, 1)
    IN IF b > Len(Thresholds) THEN LargestSize ELSE SizeTable[b]

\* lines 137-179
bubble_size_category(v) ==
    LET b == Branch(Abs(v), 1)
    IN IF b > Len(Thresholds) THEN LargestSize ELSE SizeTable[b]

\* ------------------------------------------------------------ inputs ----
\* the sizes the model hands to pack_bubbles in a direct call
SizeVals == {0, 20}
SizeSeqs == UNION {[1 .. m -> SizeVals] : m \in 0 .. MaxN}

\* net volumes at and just below every limit of bubble_size_category, and
\* their negatives
Magnitudes ==
    LET lim == {Thresholds[b] : b \in 1 .. Len(Thresholds)}
        pos == {0} \cup lim \cup {t - 1 : t \in lim}
    IN pos \cup {-v : v \in pos}

\* iterations=3000
DefaultIterations == 3000

NoRet == [xs |-> <<>>, ys |-> <<>>]

NoTable == [net_volume |-> <<>>]

NoWork == [order |-> <<>>, pushed |-> {}, start |-> <<>>, before |-> <<>>, clean |-> FALSE]

NoPage == [run_button |-> FALSE, outcome |-> "none", data |-> <<>>,
           computed |-> FALSE, shown |-> {}]

n == Len(sizes)

\* ------------------------------------------------- page: fetch, volumes ----
\* the chains of the modelled API responses, in lexicographic order
ChainNames == <<"axelar", "base">>

\* the destination volumes of the modelled API responses
Volumes == {0, 15, 150}

DestRecords == [key : {ChainNames[c] : c \in 1 .. Len(ChainNames)}, volume : Volumes]

\* a source chain with at most max destinations
SourceRecords(max) ==
    [key : {ChainNames[c] : c \in 1 .. Len(ChainNames)},
     destination_chains :
        {<<>>} \cup {<<d>> : d \in DestRecords}
               \cup (IF max >= 2 THEN {<<d, e>> : d, e \in DestRecords} ELSE {})]

\* the JSON bodies of the modelled API responses: no source chain, one source
\* chain with up to two destinations, two source chains with up to one
\* destination each, or a body without the key source_chains
ApiBodies ==
    {[source_chains |-> sc] :
        sc \in {<<>>} \cup {<<r>> : r \in SourceRecords(2)}
                      \cup {<<r, q>> : r, q \in SourceRecords(1)}}
    \cup {[message |-> "error"]}

\* how the request of fetch_gmp_data ends
Outcomes == {"ok", "ConnectionError", "HTTPError", "JSONDecodeError"}

\* the try block covers only requests.get: a later failure returns whatever
\* the response holds
fetch_gmp_data_NoDefault(outcome, body) ==
    IF outcome = "ConnectionError" THEN <<>>
    ELSE IF "source_chains" \in DOMAIN body THEN body.source_chains ELSE <<>>

\* lines 79-85: the value fetch_gmp_data returns
fetch_gmp_data(outcome, body) ==
    IF outcome # "ok" THEN <<>>
    ELSE IF "source_chains" \in DOMAIN body THEN body.source_chains ELSE <<>>

\* only the first destination is counted
SumVolume_First(dests) ==
    IF dests = <<>> THEN 0 ELSE dests[1].volume

RECURSIVE SumVolume(_)
\* sum(d.get("volume",0) for d in dests)
SumVolume(dests) ==
    IF dests = <<>> THEN 0 ELSE dests[1].volume + SumVolume(Tail(dests))

RECURSIVE SumIncoming(_, _)
\* the volume dests sends to chain c
SumIncoming(dests, c) ==
    IF dests = <<>> THEN 0
    ELSE (IF dests[1].key = c THEN dests[1].volume ELSE 0) + SumIncoming(Tail(dests), c)

RECURSIVE Outgoing(_, _)
\* outgoing[c] after the loop of lines 90-97
Outgoing(data, c) ==
    IF data = <<>> THEN 0
    ELSE (IF data[1].key = c THEN SumVolume(data[1].destination_chains) ELSE 0)
         + Outgoing(Tail(data), c)

RECURSIVE Incoming(_, _)
\* incoming[c] after the loop of lines 90-97
Incoming(data, c) ==
    IF data = <<>> THEN 0
    ELSE SumIncoming(data[1].destination_chains, c) + Incoming(Tail(data), c)

\* c is a key of outgoing or of incoming
InMerge(data, c) ==
    \E k \in 1 .. Len(data) :
        \/ data[k].key = c
        \/ \E d \in 1 .. Len(data[k].destination_chains) :
              data[k].destination_chains[d].key = c

\* a row of df_comb (lines 100, 104)
CombRow(data, c) ==
    [chain |-> c, volume_in |-> Incoming(data, c), volume_out |-> Outgoing(data, c),
     net_volume |-> Incoming(data, c) - Outgoing(data, c)]

RECURSIVE CombFrom_Unfiltered(_, _)
\* the merge without the filter of line 103
CombFrom_Unfiltered(data, c) ==
    IF c > Len(ChainNames) THEN <<>>
    ELSE (IF InMerge(data, ChainNames[c]) THEN <<CombRow(data, ChainNames[c])>> ELSE <<>>)
         \o CombFrom_Unfiltered(data, c + 1)

RECURSIVE CombFrom(_, _)
\* df_comb: the outer merge orders the rows by chain; line 103 keeps the
\* rows with a positive volume
CombFrom(data, c) ==
    IF c > Len(ChainNames) THEN <<>>
    ELSE LET row == CombRow(data, ChainNames[c])
             keep == /\ InMerge(data, ChainNames[c])
                     /\ (row.volume_in > 0 \/ row.volume_out > 0)
         IN (IF keep THEN <<row>> ELSE <<>>) \o CombFrom(data, c + 1)

RECURSIVE InsertRow(_, _)
\* row put into rows, which are in ascending order of net_volume, behind the
\* rows that are not larger
InsertRow(rows, row) ==
    IF rows = <<>> THEN <<row>>
    ELSE IF rows[1].net_volume <= row.net_volume
         THEN <<rows[1]>> \o InsertRow(Tail(rows), row)
         ELSE <<row>> \o rows

RECURSIVE SortRows(_)
\* df_comb.sort_values("net_volume",ascending=True)
SortRows(rows) ==
    IF rows = <<>> THEN <<>>
    ELSE InsertRow(SortRows(SubSeq(rows, 1, Len(rows) - 1)), rows[Len(rows)])

\* the columns of a table of rows
Columns(rows) ==
    [chain |-> [k \in 1 .. Len(rows) |-> rows[k].chain],
     volume_in |-> [k \in 1 .. Len(rows) |-> rows[k].volume_in],
     volume_out |-> [k \in 1 .. Len(rows) |-> rows[k].volume_out],
     net_volume |-> [k \in 1 .. Len(rows) |-> rows[k].net_volume]]

\* ------------------------------------------------------------ states ----
\* pack_bubbles has not been called
FreshPack ==
    /\ sizes = <<>>
    /\ iterations = 0
    /\ positions = <<>>
    /\ radii = <<>>
    /\ pass = 0
    /\ i = 0
    /\ j = 0
    /\ ret = NoRet
    /\ hist = [rng0 |-> rng, again |-> FALSE, prev |-> NoRet]
    /\ work = NoWork

\* pack_bubbles has not been called and no page script has run
Fresh == FreshPack /\ page = NoPage

\* the page has not run and pack_bubbles has not been called; the generator
\* has any seed (a generator that has made draws already is the generator of
\* the seed with the digits rotated)
Init ==
    /\ pc = "idle"
    /\ rng \in [seed : Seeds, k : {0}]
    /\ df = NoTable
    /\ Fresh

\* lines 116-118 of a call pack_bubbles(szs, iters) that finds the generator
\* in state r
Enter(szs, iters, r) ==
    /\ sizes' = szs
    /\ iterations' = iters
    /\ pass' = 0
    /\ i' = 0
    /\ j' = 0
    /\ ret' = NoRet
    /\ work' = NoWork
    /\ positions' = InitPositions(Len(szs), r)
    /\ rng' = Advance(r, 2 * Len(szs))
    /\ IF Len(szs) = 0
       THEN \* np.max of an empty array raises ValueError
            /\ radii' = <<>>
            /\ pc' = "raised"
       ELSE /\ radii' = Radii(szs)
            /\ pc' = "loop"

\* a call pack_bubbles(szs, iters)
Call(szs, iters) ==
    /\ pc = "idle"
    /\ Enter(szs, iters, rng)
    /\ hist' = [rng0 |-> rng, again |-> FALSE, prev |-> NoRet]
    /\ UNCHANGED <<df, page>>

\* the call that has returned is made once more, with the same sizes and
\* iterations and with the generator put back to the state the first call
\* found it in (np.random.seed with the same seed)
Recall ==
    /\ pc = "done"
    /\ ~hist.again
    /\ Enter(sizes, iterations, hist.rng0)
    /\ hist' = [rng0 |-> hist.rng0, again |-> TRUE, prev |-> ret]
    /\ UNCHANGED <<df, page>>

\* the call that has returned is made once more, with the same sizes and
\* iterations; the generator is in the state the first call left it in
CallAgain ==
    /\ pc = "done"
    /\ ~hist.again
    /\ Enter(sizes, iterations, rng)
    /\ hist' = [rng0 |-> rng, again |-> TRUE, prev |-> ret]
    /\ UNCHANGED <<df, page>>

\* the inner loop starts at j = i instead of j = i + 1
PassBegin_SelfPair ==
    /\ pc = "loop"
    /\ pass < iterations
    /\ IF n >= 1 THEN pc' = "pair" /\ i' = 1 /\ j' = 1
                 ELSE pc' = "clip" /\ i' = 0 /\ j' = 0
    /\ work' = [order |-> <<>>, pushed |-> {}, start |-> positions,
                before |-> work.before, clean |-> work.clean]
    /\ UNCHANGED <<sizes, iterations, positions, radii, pass, rng, ret, df, hist, page>>

\* for _ in range(iterations): the next pass begins
PassBegin ==
    /\ pc = "loop"
    /\ pass < iterations
    /\ IF n >= 2 THEN pc' = "pair" /\ i' = 1 /\ j' = 2
                 ELSE pc' = "clip" /\ i' = 0 /\ j' = 0
    /\ work' = [order |-> <<>>, pushed |-> {}, start |-> positions,
                before |-> work.before, clean |-> work.clean]
    /\ UNCHANGED <<sizes, iterations, positions, radii, pass, rng, ret, df, hist, page>>

\* the history of the pass after the pair (i, j) has been examined
Examined ==
    [work EXCEPT !.order = Append(@, <<i, j>>),
                 !.pushed = IF Overlaps(positions, radii, i, j)
                            THEN @ \cup {<<i, j>>} ELSE @]

\* the positions are clipped after every pair
Pair_Clipped ==
    /\ pc = "pair"
    /\ LET res == PushPair(positions, radii, i, j, rng)
       IN /\ positions' = Clip(res.pos)
          /\ rng' = res.rng
    /\ IF j < n THEN pc' = "pair" /\ i' = i /\ j' = j + 1
       ELSE IF i + 1 < n THEN pc' = "pair" /\ i' = i + 1 /\ j' = i + 2
       ELSE pc' = "clip" /\ i' = 0 /\ j' = 0
    /\ work' = Examined
    /\ UNCHANGED <<sizes, iterations, radii, pass, ret, df, hist, page>>

\* the inner loop runs over every j other than i, not only over j > i
Pair_EveryJ ==
    /\ pc = "pair"
    /\ LET res == PushPair(positions, radii, i, j, rng)
       IN /\ positions' = res.pos
          /\ rng' = res.rng
    /\ IF j < n /\ ~(j + 1 = i /\ i = n) THEN pc' = "pair" /\ i' = i /\ j' = (IF j + 1 = i THEN j + 2 ELSE j + 1)
       ELSE IF i < n THEN pc' = "pair" /\ i' = i + 1 /\ j' = 1
       ELSE pc' = "clip" /\ i' = 0 /\ j' = 0
    /\ work' = Examined
    /\ UNCHANGED <<sizes, iterations, radii, pass, ret, df, hist, page>>

\* lines 120-132: one pair (i, j) is examined
Pair ==
    /\ pc = "pair"
    /\ LET res == PushPair(positions, radii, i, j, rng)
       IN /\ positions' = res.pos
          /\ rng' = res.rng
    /\ IF j < n THEN pc' = "pair" /\ i' = i /\ j' = j + 1
       ELSE IF i + 1 < n THEN pc' = "pair" /\ i' = i + 1 /\ j' = i + 2
       ELSE pc' = "clip" /\ i' = 0 /\ j' = 0
    /\ work' = Examined
    /\ UNCHANGED <<sizes, iterations, radii, pass, ret, df, hist, page>>

\* every coordinate of pos is a number of [0, 1]
AllInCanvas(pos) ==
    \A k \in DOMAIN pos : \A c \in 1 .. 2 :
        ~IsNaN(pos[k][c]) /\ pos[k][c] >= 0 /\ pos[k][c] <= Unit

\* line 133: the end of a pass
ClipPass ==
    /\ pc = "clip"
    /\ positions' = Clip(positions)
    /\ pass' = pass + 1
    /\ pc' = "loop"
    /\ work' = [work EXCEPT !.before = positions,
                            !.clean = (work.pushed = {} /\ AllInCanvas(work.start))]
    /\ UNCHANGED <<sizes, iterations, radii, i, j, rng, ret, df, hist, page>>

\* the loop is left as soon as a pass has pushed no pair
Return_Early ==
    /\ pc = "loop"
    /\ pass = iterations \/ (pass >= 1 /\ work.pushed = {})
    /\ ret' = [xs |-> [k \in 1 .. n |-> positions[k][1]],
               ys |-> [k \in 1 .. n |-> positions[k][2]]]
    /\ pc' = "done"
    /\ UNCHANGED <<sizes, iterations, positions, radii, pass, i, j, rng, df, hist, work, page>>

\* line 134: return positions[:,0], positions[:,1]
Return ==
    /\ pc = "loop"
    /\ pass = iterations
    /\ ret' = [xs |-> [k \in 1 .. n |-> positions[k][1]],
               ys |-> [k \in 1 .. n |-> positions[k][2]]]
    /\ pc' = "done"
    /\ UNCHANGED <<sizes, iterations, positions, radii, pass, i, j, rng, df, hist, work, page>>

\* lines 72 and 182, 268-269: the script runs; st.button says whether Fetch
\* Data was pressed
ScriptRun(pressed) ==
    /\ pc = "script"
    /\ IF pressed
       THEN /\ page' = [page EXCEPT !.run_button = TRUE]
            /\ pc' = "fetch"
       ELSE /\ page' = [page EXCEPT !.shown = {"info"}]
            /\ pc' = "end"
    /\ UNCHANGED <<sizes, iterations, positions, radii, pass, i, j, rng, ret, df, hist, work>>

\* line 184: data = fetch_gmp_data(from_date,to_date); a failed request
\* shows st.error
FetchData(outcome, body) ==
    /\ pc = "fetch"
    /\ page' = [page EXCEPT !.outcome = outcome,
                            !.data = fetch_gmp_data(outcome, body),
                            !.shown = IF outcome # "ok" THEN {"error"} ELSE {}]
    /\ pc' = "fetched"
    /\ UNCHANGED <<sizes, iterations, positions, radii, pass, i, j, rng, ret, df, hist, work>>

\* lines 185-186: if not data: st.warning
NoData ==
    /\ pc = "fetched"
    /\ page.data = <<>>
    /\ page' = [page EXCEPT !.shown = @ \cup {"warning"}]
    /\ pc' = "end"
    /\ UNCHANGED <<sizes, iterations, positions, radii, pass, i, j, rng, ret, df, hist, work>>

\* lines 188-235: compute_volumes(data), the three bar charts, and the
\* combined table sorted by net volume
ComputeVolumes ==
    /\ pc = "fetched"
    /\ page.data # <<>>
    /\ df' = Columns(SortRows(CombFrom(page.data, 1)))
    /\ page' = [page EXCEPT !.computed = TRUE]
    /\ pc' = "table"
    /\ UNCHANGED <<sizes, iterations, positions, radii, pass, i, j, rng, ret, hist, work>>

\* line 238: df_comb_sorted["bubble_size"] = net_volume.apply(bubble_size_category)
BubbleSize ==
    /\ pc = "table"
    /\ df' = [c \in DOMAIN df \cup {"bubble_size"} |->
                IF c = "bubble_size"
                THEN [k \in 1 .. Len(df.net_volume) |->
                        bubble_size_category(df.net_volume[k])]
                ELSE df[c]]
    /\ pc' = "sized"
    /\ UNCHANGED <<sizes, iterations, positions, radii, pass, i, j, rng, ret, hist, work, page>>

\* line 240: pack_bubbles(df_comb_sorted["bubble_size"].values) is entered
PagePack ==
    /\ pc = "sized"
    /\ Enter(df.bubble_size, DefaultIterations, rng)
    /\ hist' = [rng0 |-> rng, again |-> FALSE, prev |-> NoRet]
    /\ UNCHANGED <<df, page>>

Step == PassBegin \/ Pair \/ ClipPass \/ Return

\* a direct call of pack_bubbles, from any state of the generator
Next ==
    \/ \E szs \in SizeSeqs, iters \in 0 .. MaxIter : Call(szs, iters)
    \/ Step

Spec == Init /\ [][Next]_vars

\* one call of pack_bubbles, then the same call once more
NextDet == Next \/ Recall

SpecDet == Init /\ [][NextDet]_vars

\* one call of pack_bubbles, then the same call once more without seeding
\* the generator in between
NextSeq == Next \/ CallAgain

SpecSeq == Init /\ [][NextSeq]_vars

\* the page has sorted the combined table by net volume (line 221): two rows
InitSize ==
    /\ pc = "table"
    /\ rng = [seed |-> 0, k |-> 0]
    /\ df \in {[net_volume |-> <<v, w>>] : v, w \in Magnitudes}
    /\ df.net_volume[1] <= df.net_volume[2]
    /\ Fresh

\* the bubble chart section of the page up to the radii of pack_bubbles
NextSize == BubbleSize \/ PagePack

SpecSize == InitSize /\ [][NextSize]_vars

\* the script of the page starts
InitPage ==
    /\ pc = "script"
    /\ rng = [seed |-> 0, k |-> 0]
    /\ df = NoTable
    /\ Fresh

\* one run of the page script, up to the radii of pack_bubbles (its passes
\* are those of Spec)
NextPage ==
    \/ \E pressed \in BOOLEAN : ScriptRun(pressed)
    \/ \E outcome \in Outcomes, body \in ApiBodies : FetchData(outcome, body)
    \/ NoData
    \/ ComputeVolumes
    \/ BubbleSize
    \/ PagePack

SpecPage == InitPage /\ [][NextPage]_vars

\* ------------------------------------------------ interchain chart data ----
\* the variables of pack_bubbles and of the Cross-Chain Flows table
packVars == <<sizes, iterations, positions, radii, pass, i, j, rng, ret, df, hist, work>>

\* the columns of the placeholder table of the chart pages
ChartColumns ==
    {"timestamp", "num_txs", "volume", "gmp_num_txs", "gmp_volume",
     "transfers_num_txs", "transfers_volume"}

\* the numeric columns
num_cols == ChartColumns \ {"timestamp"}

\* pd.NaT: a timestamp that did not parse
NaT == -1

\* safe_parse_timestamp_series on one value: the day the timestamp lies in
\* (all timestamps of a response are in the same unit), NaT when it does not parse
safe_parse_timestamp(t) ==
    CASE t = "d1" -> 1
      [] t = "d2" -> 2
      [] t = "d9" -> 9
      [] t = "d40" -> 40
      [] OTHER -> NaT

\* a record of the API with the given keys and timestamp
ChartRecord(keys, t) ==
    [c \in keys |->
        IF c = "timestamp" THEN t
        ELSE IF c = "num_txs" THEN 2
        ELSE IF c = "volume" THEN 5
        ELSE 1]

\* the records of the modelled responses: with all columns, with some numeric
\* columns missing, and without timestamp
ChartRecords(stamps) ==
    {ChartRecord(ChartColumns, t) : t \in stamps}
    \cup {ChartRecord({"timestamp", "num_txs", "volume"}, t) : t \in stamps}
    \cup {ChartRecord({"num_txs", "volume"}, "d1")}

\* the value of "data" in the modelled responses: up to two records
ChartData(stamps) ==
    {<<>>} \cup {<<r>> : r \in ChartRecords(stamps)}
           \cup {<<r, q>> : r, q \in ChartRecords(stamps)}

\* pd.DataFrame(data): the columns are the keys of the records, a key a
\* record lacks is NaN in its row
DataFrame(data) ==
    LET cols == UNION {DOMAIN data[k] : k \in 1 .. Len(data)}
    IN [columns |-> cols,
        rows |-> [k \in 1 .. Len(data) |->
                    [c \in cols |->
                        IF c \in DOMAIN data[k] THEN data[k][c]
                        ELSE IF c = "timestamp" THEN "nan" ELSE NaN]]]

\* pd.DataFrame(columns=[...]) with the seven chart columns
EmptyChart == [columns |-> ChartColumns, rows |-> <<>>]

\* df["timestamp"] = safe_parse_timestamp_series(df["timestamp"])
ParseTimestamps(tbl) ==
    [columns |-> tbl.columns \cup {"timestamp"},
     rows |-> [k \in 1 .. Len(tbl.rows) |->
                [c \in tbl.columns \cup {"timestamp"} |->
                    IF c = "timestamp"
                    THEN (IF c \in tbl.columns THEN safe_parse_timestamp(tbl.rows[k][c]) ELSE NaT)
                    ELSE tbl.rows[k][c]]]]

\* the loop `if col not in df.columns: df[col] = 0` followed by fillna(0)
\* on the numeric columns
FillNumeric(tbl) ==
    [columns |-> tbl.columns \cup num_cols,
     rows |-> [k \in 1 .. Len(tbl.rows) |->
                [c \in tbl.columns \cup num_cols |->
                    IF c \in tbl.columns
                    THEN (IF c # "timestamp" /\ IsNaN(tbl.rows[k][c]) THEN 0 ELSE tbl.rows[k][c])
                    ELSE 0]]]

RECURSIVE InsertByTime(_, _)
InsertByTime(rows, row) ==
    IF rows = <<>> THEN <<row>>
    ELSE IF rows[1].timestamp <= row.timestamp
         THEN <<rows[1]>> \o InsertByTime(Tail(rows), row)
         ELSE <<row>> \o rows

RECURSIVE SortByTime(_)
\* sort_values("timestamp")
SortByTime(rows) ==
    IF rows = <<>> THEN <<>>
    ELSE InsertByTime(SortByTime(SubSeq(rows, 1, Len(rows) - 1)), rows[Len(rows)])

\* the bucket of a day: the day itself, its week or its month
BucketOf(day, timeframe) ==
    IF timeframe = "day" THEN day
    ELSE IF timeframe = "week" THEN day \div 7
    ELSE day \div 30

RECURSIVE BucketSum(_, _, _, _)
\* the sum of column c over the rows of bucket b
BucketSum(rows, c, b, timeframe) ==
    IF rows = <<>> THEN 0
    ELSE (IF BucketOf(rows[1].timestamp, timeframe) = b THEN rows[1][c] ELSE 0)
         + BucketSum(Tail(rows), c, b, timeframe)

\* the bucket of the last row is left out
Resample_OpenEnd(tbl, timeframe) ==
    LET lo == BucketOf(tbl.rows[1].timestamp, timeframe)
        hi == BucketOf(tbl.rows[Len(tbl.rows)].timestamp, timeframe)
    IN [columns |-> tbl.columns,
        rows |-> [k \in 1 .. (hi - lo) |->
                    [c \in tbl.columns |->
                        IF c = "timestamp" THEN lo + k - 1
                        ELSE BucketSum(tbl.rows, c, lo + k - 1, timeframe)]]]

\* set_index("timestamp").resample(...).sum().reset_index() of rows sorted by
\* timestamp: one row per bucket from the first to the last, empty buckets
\* included
Resample(tbl, timeframe) ==
    LET lo == BucketOf(tbl.rows[1].timestamp, timeframe)
        hi == BucketOf(tbl.rows[Len(tbl.rows)].timestamp, timeframe)
    IN [columns |-> tbl.columns,
        rows |-> [k \in 1 .. (hi - lo + 1) |->
                    [c \in tbl.columns |->
                        IF c = "timestamp" THEN lo + k - 1
                        ELSE BucketSum(tbl.rows, c, lo + k - 1, timeframe)]]]

\* --------------------------------------------------- chain analysis page ----
\* 4_Chain_Analysis.py lines 49-72: the table fetch_chain_data returns
fetch_chain_data(outcome, data) ==
    IF outcome # "ok" THEN EmptyChart
    ELSE IF data = <<>> THEN DataFrame(data)
    ELSE IF "timestamp" \notin DataFrame(data).columns
         THEN \* KeyError inside the try
              EmptyChart
    ELSE LET t == FillNumeric(ParseTimestamps(DataFrame(data)))
         IN [columns |-> t.columns, rows |-> SortByTime(t.rows)]

\* lines 84-95
aggregate(tbl, timeframe) ==
    IF tbl.rows = <<>> THEN tbl ELSE Resample(tbl, timeframe)

\* the timestamps of the modelled responses of the Chain Analysis page
ChainStamps == {"d1", "d9"}

\* the Chain Analysis script has not run
NoChain == [timeframe |-> "day", df_out |-> EmptyChart, df_in |-> EmptyChart,
            df_out_agg |-> EmptyChart, df_in_agg |-> EmptyChart,
            kpi |-> [volume |-> 0, num_txs |-> 0], shown |-> {}]

InitChain ==
    /\ pc = "chain_script"
    /\ rng = [seed |-> 0, k |-> 0]
    /\ df = NoTable
    /\ FreshPack
    /\ page = NoChain

\* lines 39 and 75-77: the timeframe is chosen and both roles are fetched
ChainFetch(timeframe, out, in) ==
    /\ pc = "chain_script"
    /\ page' = [page EXCEPT !.timeframe = timeframe,
                            !.df_out = fetch_chain_data(out.outcome, out.data),
                            !.df_in = fetch_chain_data(in.outcome, in.data),
                            !.shown = IF out.outcome # "ok" \/ in.outcome # "ok"
                                      THEN {"error"} ELSE {}]
    /\ pc' = "chain_fetched"
    /\ UNCHANGED packVars

\* lines 79-81: st.warning and st.stop()
ChainStop ==
    /\ pc = "chain_fetched"
    /\ page.df_out.rows = <<>> /\ page.df_in.rows = <<>>
    /\ page' = [page EXCEPT !.shown = @ \cup {"warning"}]
    /\ pc' = "end"
    /\ UNCHANGED packVars

\* lines 97-98
ChainAggregate ==
    /\ pc = "chain_fetched"
    /\ ~(page.df_out.rows = <<>> /\ page.df_in.rows = <<>>)
    /\ page' = [page EXCEPT !.df_out_agg = aggregate(page.df_out, page.timeframe),
                            !.df_in_agg = aggregate(page.df_in, page.timeframe)]
    /\ pc' = "chain_kpi"
    /\ UNCHANGED packVars

RECURSIVE ColumnSum(_, _)
\* df[c].sum()
ColumnSum(rows, c) ==
    IF rows = <<>> THEN 0 ELSE rows[1][c] + ColumnSum(Tail(rows), c)

\* lines 101-105: the KPI step reads "volume" and "num_txs" of both
\* aggregated tables; a table without the column raises KeyError
ChainKpis ==
    /\ pc = "chain_kpi"
    /\ IF {"volume", "num_txs"} \subseteq (page.df_out_agg.columns \cap page.df_in_agg.columns)
       THEN /\ page' = [page EXCEPT !.kpi =
                          [volume |-> ColumnSum(page.df_in_agg.rows, "volume")
                                      + ColumnSum(page.df_out_agg.rows, "volume"),
                           num_txs |-> ColumnSum(page.df_in_agg.rows, "num_txs")
                                       + ColumnSum(page.df_out_agg.rows, "num_txs")]]
            /\ pc' = "charts"
       ELSE /\ page' = page
            /\ pc' = "KeyError"
    /\ UNCHANGED packVars

\* the answers of the API to one request of the Chain Analysis page
ChainAnswers ==
    [outcome : {"ok"}, data : ChartData(ChainStamps)]
    \cup [outcome : {"ConnectionError", "HTTPError"}, data : {<<>>}]

\* one run of the Chain Analysis script up to its KPIs
NextChain ==
    \/ \E timeframe \in {"day", "week", "month"}, out, in \in ChainAnswers :
          ChainFetch(timeframe, out, in)
    \/ ChainStop
    \/ ChainAggregate
    \/ ChainKpis

SpecChain == InitChain /\ [][NextChain]_vars

\* ------------------------------------------------- interchain chart page ----
\* the timestamps of the modelled responses of the Interchain Chart page
ChartStamps == {"d1", "d2", "d9", "d40", "bad"}

\* 2_Interchain_Chart.py lines 136-143: data after the try / except
fetch_chart_data(outcome, data) == IF outcome # "ok" THEN <<>> ELSE data

\* lines 146-151: the table, or the placeholder when it is empty
ChartFrame(data) == IF data = <<>> THEN EmptyChart ELSE DataFrame(data)

\* line 159: df = df[~df["timestamp"].isna()]
DropNaT(tbl) ==
    [columns |-> tbl.columns,
     rows |-> SelectSeq(tbl.rows, LAMBDA row : row.timestamp # NaT)]

\* lines 156-171: timestamps parsed, rows without one dropped, numeric
\* columns completed, rows sorted
CleanChart(tbl) ==
    LET t == FillNumeric(DropNaT(ParseTimestamps(tbl)))
    IN [columns |-> t.columns, rows |-> SortByTime(t.rows)]

RECURSIVE GroupByDay(_, _)
\* lines 175-177: groupby("timestamp")[num_cols].sum() of rows sorted by
\* day: one row per day that has rows
GroupByDay(rows, cols) ==
    IF rows = <<>> THEN <<>>
    ELSE LET day == rows[1].timestamp
             rest == SelectSeq(rows, LAMBDA row : row.timestamp # day)
         IN <<[c \in cols |-> IF c = "timestamp" THEN day
                              ELSE BucketSum(rows, c, day, "day")]>>
            \o GroupByDay(rest, cols)

\* lines 174-197: df_agg, with the placeholder of zeros when it is empty
ChartAggregate(tbl, timeframe) ==
    IF tbl.rows = <<>> THEN EmptyChart
    ELSE IF timeframe = "day"
         THEN [columns |-> ChartColumns, rows |-> GroupByDay(tbl.rows, ChartColumns)]
         ELSE LET t == Resample(tbl, timeframe)
              IN [columns |-> {c \in t.columns : c \in ChartColumns},
                  rows |-> [k \in 1 .. Len(t.rows) |->
                              [c \in {d \in t.columns : d \in ChartColumns} |-> t.rows[k][c]]]]

\* the Interchain Chart script has not run
NoChart == [timeframe |-> "month", outcome |-> "none", data |-> <<>>,
            df |-> EmptyChart, df_agg |-> EmptyChart,
            total_txs |-> 0, total_volume |-> 0, shown |-> {}]

InitChart ==
    /\ pc = "chart_script"
    /\ rng = [seed |-> 0, k |-> 0]
    /\ df = NoTable
    /\ FreshPack
    /\ page = NoChart

\* lines 44 and 136-143: the timeframe is chosen and the data is fetched
ChartFetch(timeframe, outcome, data) ==
    /\ pc = "chart_script"
    /\ page' = [page EXCEPT !.timeframe = timeframe,
                            !.outcome = outcome,
                            !.data = fetch_chart_data(outcome, data),
                            !.shown = IF outcome # "ok" THEN {"error"} ELSE {}]
    /\ pc' = "chart_fetched"
    /\ UNCHANGED packVars

\* lines 146-171
ChartClean ==
    /\ pc = "chart_fetched"
    /\ page' = [page EXCEPT !.df = CleanChart(ChartFrame(page.data)),
                            !.shown = IF page.data = <<>> THEN @ \cup {"warning"} ELSE @]
    /\ pc' = "chart_clean"
    /\ UNCHANGED packVars

\* lines 174-197
ChartAgg ==
    /\ pc = "chart_clean"
    /\ page' = [page EXCEPT !.df_agg = ChartAggregate(page.df, page.timeframe)]
    /\ pc' = "chart_kpi"
    /\ UNCHANGED packVars

\* lines 200-205: Total Number of Transfers and Total Volume
ChartKpis ==
    /\ pc = "chart_kpi"
    /\ page' = [page EXCEPT
                  !.total_txs = IF page.df_agg.rows = <<>> THEN 0
                                ELSE ColumnSum(page.df_agg.rows, "num_txs"),
                  !.total_volume = IF page.df_agg.rows = <<>> THEN 0
                                   ELSE ColumnSum(page.df_agg.rows, "volume")]
    /\ pc' = "charts"
    /\ UNCHANGED packVars

\* one run of the Interchain Chart script up to its KPIs
NextChart ==
    \/ \E timeframe \in {"day", "week", "month"},
          outcome \in {"ok", "ConnectionError", "HTTPError"},
          data \in ChartData(ChartStamps) : ChartFetch(timeframe, outcome, data)
    \/ ChartClean
    \/ ChartAgg
    \/ ChartKpis

SpecChart == InitChart /\ [][NextChart]_vars

\* ------------------------------------------ overview page: cached fetches ----
\* the chains and modes fetch_chain is called with
CacheKeys == {"Avalanche", "Axelarnet"} \X {"source", "destination"}

\* the modelled "data" lists of an answer: empty or one record
OverviewData == {d \in ChartData({"d1"}) : Len(d) <= 1}

\* 5_Overview.py lines 52-67: the value fetch_chain computes from the outcome
\* of its request
fetch_chain(outcome, data) ==
    IF outcome # "ok" \/ data = <<>> THEN [Transfers |-> 0, Volume |-> 0]
    ELSE LET t == DataFrame(data)
         IN [Transfers |-> IF "num_txs" \in t.columns
                           THEN ColumnSum(FillNumeric(t).rows, "num_txs") ELSE 0,
             Volume |-> IF "volume" \in t.columns
                        THEN ColumnSum(FillNumeric(t).rows, "volume") ELSE 0]

\* only the value of a successful request is stored
Memoised_OkOnly(cache, key, outcome, value) ==
    IF outcome = "ok" THEN (key :> value) @@ cache ELSE cache

\* @st.cache_data: the value a call returns is stored under its arguments
Memoised(cache, key, outcome, value) == (key :> value) @@ cache

\* @st.cache_data(ttl=300), in seconds
TokenTtl == 300

\* the bodies of the modelled answers of getTokenInfo
TokenBodies == {[price |-> 1], [price |-> 2]}

\* nothing is cached and no call has been made; failed holds the keys whose
\* request failed and raised tells that a call of get_token_info has raised
NoCache == [cache |-> <<>>, failed |-> {}, raised |-> FALSE,
            token |-> [stored |-> FALSE, value |-> [price |-> 0], age |-> 0],
            last |-> [fn |-> "none", key |-> <<"", "">>, requested |-> FALSE,
                      outcome |-> "none", raised |-> FALSE,
                      value |-> [Transfers |-> 0, Volume |-> 0]]]

InitCache ==
    /\ pc = "overview"
    /\ rng = [seed |-> 0, k |-> 0]
    /\ df = NoTable
    /\ FreshPack
    /\ page = NoCache

\* lines 73-74: a call fetch_chain(chain, mode); outcome and data are what
\* the request returns if one is made
FetchChainCall(key, outcome, data) ==
    /\ pc = "overview"
    /\ IF key \in DOMAIN page.cache
       THEN page' = [page EXCEPT !.last =
                       [fn |-> "fetch_chain", key |-> key, requested |-> FALSE,
                        outcome |-> "none", raised |-> FALSE, value |-> page.cache[key]]]
       ELSE page' = [page EXCEPT
                       !.cache = Memoised(page.cache, key, outcome, fetch_chain(outcome, data)),
                       !.failed = IF outcome = "ok" THEN @ ELSE @ \cup {key},
                       !.last = [fn |-> "fetch_chain", key |-> key, requested |-> TRUE,
                                 outcome |-> outcome, raised |-> FALSE,
                                 value |-> fetch_chain(outcome, data)]]
    /\ UNCHANGED <<pc, packVars>>

\* 1_AXL_Token_Info.py lines 99-107: a call get_token_info(); a failed
\* request raises out of the function and nothing is stored
TokenInfoCall(outcome, body) ==
    /\ pc = "overview"
    /\ IF page.token.stored /\ page.token.age < TokenTtl
       THEN page' = [page EXCEPT !.last =
                       [fn |-> "get_token_info", key |-> <<"", "">>, requested |-> FALSE,
                        outcome |-> "none", raised |-> FALSE,
                        value |-> page.token.value]]
       ELSE IF outcome = "ok"
       THEN page' = [page EXCEPT
                       !.token = [stored |-> TRUE, value |-> body, age |-> 0],
                       !.last = [fn |-> "get_token_info", key |-> <<"", "">>,
                                 requested |-> TRUE, outcome |-> outcome,
                                 raised |-> FALSE, value |-> body]]
       ELSE page' = [page EXCEPT
                       !.token = [stored |-> FALSE, value |-> [price |-> 0], age |-> 0],
                       !.raised = TRUE,
                       !.last = [fn |-> "get_token_info", key |-> <<"", "">>,
                                 requested |-> TRUE, outcome |-> outcome,
                                 raised |-> TRUE, value |-> [price |-> 0]]]
    /\ UNCHANGED <<pc, packVars>>

\* half of the time to live passes
Tick ==
    /\ pc = "overview"
    /\ page.token.stored
    /\ page.token.age < TokenTtl
    /\ page' = [page EXCEPT !.token.age = @ + TokenTtl \div 2]
    /\ UNCHANGED <<pc, packVars>>

\* calls of the two cached functions in any order, and time passing
NextCache ==
    \/ \E key \in CacheKeys, outcome \in {"ok", "ConnectionError", "HTTPError"},
          data \in OverviewData : FetchChainCall(key, outcome, data)
    \/ \E outcome \in {"ok", "HTTPError"}, body \in TokenBodies : TokenInfoCall(outcome, body)
    \/ Tick

SpecCache == InitCache /\ [][NextCache]_vars

\* ------------------------------------------------------------ claims ----
ItemPairs == {p \in (1 .. n) \X (1 .. n) : p[1] < p[2]}

\* distance(a, b) >= radius(a) + radius(b) + padding - e for every pair a < b
NoOverlap(e) ==
    \A p \in ItemPairs :
        FGeq(Dist(positions, p[1], p[2]), FAdd(MinDist(radii, p[1], p[2]), -e))

\* 0 <= v <= 1
InCanvas(v) == FGeq(v, 0) /\ FGeq(Unit, v)

AllZero == \A k \in 1 .. n : sizes[k] = 0

\* C1: when pack_bubbles has returned from a call with a non-empty item list
\* and the largest iteration budget, every pair of distinct items is at least
\* radius + radius + padding - Eps apart.
C1_NoOverlap ==
    (pc = "done" /\ n >= 1 /\ iterations = MaxIter) => NoOverlap(Eps)

\* C2: every coordinate pack_bubbles returns lies in the canvas [0, 1], for
\* every input and every iteration budget, 0 included.
C2_Bounds ==
    pc = "done" =>
        \A k \in 1 .. n : InCanvas(ret.xs[k]) /\ InCanvas(ret.ys[k])

C4_EmptyInput == n = 0 => pc # "raised"

\* C5: when every size is zero, no radius is the result of a division by the
\* zero maximum: all radii are the same number, and after the largest
\* iteration budget the no-overlap property holds.
C5_AllZero ==
    (pc = "done" /\ n >= 1 /\ AllZero) =>
        /\ \A k \in 1 .. n : ~IsNaN(radii[k]) /\ radii[k] = radii[1]
        /\ iterations = MaxIter => NoOverlap(Eps)

\* C6: pack_bubbles never raises for non-negative sizes, and returns a
\* position for every item whatever the iteration budget.
C6_NeverRaises ==
    /\ pc # "raised"
    /\ pc = "done" => Len(ret.xs) = n /\ Len(ret.ys) = n

\* C7: for net volumes 0 <= m1 < m2 of the table, bubble_size_category(m1) <=
\* bubble_size_category(m2) and the radius pack_bubbles derives for m1 is <=
\* the one it derives for m2; every bubble size lies in [20, 190].
C7_Monotone ==
    pc \in {"sized", "loop"} =>
        \A a, b \in 1 .. Len(df.net_volume) :
            /\ df.bubble_size[a] \in 20 .. 190
            /\ (0 <= df.net_volume[a] /\ df.net_volume[a] < df.net_volume[b]) =>
                  /\ df.bubble_size[a] <= df.bubble_size[b]
                  /\ pc = "loop" => radii[a] <= radii[b]

\* pack_bubbles has computed the radii of two rows of different magnitude
\* and different size
C7_Witness ==
    /\ pc = "loop"
    /\ 0 <= df.net_volume[1]
    /\ df.net_volume[1] < df.net_volume[2]
    /\ df.bubble_size[1] < df.bubble_size[2]
    /\ radii[1] < radii[2]

\* C8: pack_bubbles returns, for every input item, a position and a radius:
\* the returned value has a radius component, and each component has one
\* entry per item.
C8_OutputShape ==
    pc = "done" =>
        /\ "radius" \in DOMAIN ret
        /\ \A f \in DOMAIN ret : Len(ret[f]) = n

\* C9: two items of equal magnitude are, after the largest iteration budget,
\* at least radius + radius + padding apart (up to Eps grid steps).
C9_TwoItems ==
    (pc = "done" /\ n = 2 /\ sizes[1] = sizes[2] /\ iterations = MaxIter) =>
        FGeq(Dist(positions, 1, 2), FAdd(MinDist(radii, 1, 2), -Eps))

\* C10: with one item the position never changes: during the call and in the
\* returned value it is the initial position, inside [0.1, 0.9] x [0.1, 0.9].
C10_SingleItem ==
    (n = 1 /\ pc \in {"loop", "pair", "clip", "done"}) =>
        /\ positions = InitPositions(1, hist.rng0)
        /\ \A c \in 1 .. 2 :
              /\ positions[1][c] >= Unit \div 10
              /\ positions[1][c] <= (9 * Unit) \div 10
        /\ pc = "done" => ret = [xs |-> <<positions[1][1]>>, ys |-> <<positions[1][2]>>]

\* a call with one item of positive size has returned after the largest budget
C10_Witness ==
    /\ pc = "done"
    /\ n = 1
    /\ sizes[1] > 0
    /\ iterations = MaxIter
    /\ pass = MaxIter

\* the rows of the table whose net volume is negative
NegativeRows == {a \in 1 .. Len(df.net_volume) : df.net_volume[a] < 0}

\* C11 as stated: a row with a negative net volume is rejected (it gets no
\* bubble) or is clamped to zero (it gets the size of net volume 0), and all
\* such rows are treated alike.
C11_RejectOrClamp ==
    pc \in {"sized", "loop"} =>
        \/ \A a \in NegativeRows : df.bubble_size[a] = bubble_size_category(0)
        \/ Len(df.bubble_size) = Len(df.net_volume) - Cardinality(NegativeRows)

\* C11: a row with a negative net volume is neither rejected nor clamped:
\* every row gets a bubble, a row of net volume -v gets the size of a row of
\* net volume v (so a large negative net volume gets more than the minimum
\* size), and pack_bubbles receives the sizes of all rows.
C11_AbsPolicy ==
    pc \in {"sized", "loop"} =>
        /\ Len(df.bubble_size) = Len(df.net_volume)
        /\ \A a, b \in 1 .. Len(df.net_volume) :
              df.net_volume[a] = -df.net_volume[b] => df.bubble_size[a] = df.bubble_size[b]
        /\ \A a \in NegativeRows :
              -df.net_volume[a] >= Thresholds[1] => df.bubble_size[a] > SizeTable[1]
        /\ pc = "loop" => sizes = df.bubble_size

\* pack_bubbles has been entered with the sizes of a table whose rows are
\* -v and v, both sized above the minimum
C11_Witness ==
    /\ pc = "loop"
    /\ df.net_volume[1] < 0
    /\ df.net_volume[1] = -df.net_volume[2]
    /\ df.bubble_size[1] > SizeTable[1]
    /\ sizes = df.bubble_size

\* C12: the result of a call of pack_bubbles does not depend on an earlier
\* call: the same call made a second time, right after the first, returns the
\* same positions, and neither call changes the sizes it was given.
C12_Independence ==
    (pc = "done" /\ hist.again) =>
        /\ ret.xs = hist.prev.xs
        /\ ret.ys = hist.prev.ys
        /\ sizes \in SizeSeqs

\* the move the step makes to coordinate c of item k
Move(k, c) == FSub(positions'[k][c], positions[k][c])

\* C13: a step that examines a pair (i, j) with 0 < distance < radius(i) +
\* radius(j) + padding moves j by half of the deficit along the line from i
\* to j, away from i, and moves i by the opposite vector; after the step the
\* distance of the pair is radius(i) + radius(j) + padding (all up to Eps grid
\* steps of rounding).
C13_OverlapPush ==
    [][(pc = "pair" /\ Overlaps(positions, radii, i, j) /\ Dist(positions, i, j) > 0) =>
         LET dx == positions[j][1] - positions[i][1]
             dy == positions[j][2] - positions[i][2]
             deficit == MinDist(radii, i, j) - Dist(positions, i, j)
         IN /\ Move(i, 1) = -Move(j, 1)
            /\ Move(i, 2) = -Move(j, 2)
            /\ Abs(2 * Hypot(Move(j, 1), Move(j, 2)) - deficit) <= 2 * Eps
            /\ Abs(Move(j, 1) * dy - Move(j, 2) * dx) <= Abs(dx) + Abs(dy)
            /\ Move(j, 1) * dx + Move(j, 2) * dy >= 0
            /\ Abs(Dist(positions', i, j) - MinDist(radii, i, j)) <= Eps]_vars

\* the only pair of a call with two items overlapped at a distance above 0
\* when the pass began and has been pushed
C13_Witness ==
    /\ pc = "clip"
    /\ n = 2
    /\ Overlaps(work.start, radii, 1, 2)
    /\ Dist(work.start, 1, 2) > 0
    /\ positions # work.start
    /\ Abs(Dist(positions, 1, 2) - MinDist(radii, 1, 2)) <= Eps

\* C14: a step that examines a pair (i, j) at distance 0 moves i and j by
\* opposite vectors of length (radius(i) + radius(j) + padding) / 2, so that
\* after the step the two items are radius(i) + radius(j) + padding apart (up
\* to Eps grid steps of rounding).
C14_CoincidentPush ==
    [][(pc = "pair" /\ Overlaps(positions, radii, i, j) /\ Dist(positions, i, j) = 0) =>
         /\ Move(i, 1) = -Move(j, 1)
         /\ Move(i, 2) = -Move(j, 2)
         /\ Abs(2 * Hypot(Move(j, 1), Move(j, 2)) - MinDist(radii, i, j)) <= 2 * Eps
         /\ Abs(Dist(positions', i, j) - MinDist(radii, i, j)) <= Eps]_vars

\* C15 as stated: once a full pass has found no overlapping pair, pack_bubbles
\* returns instead of beginning another pass.
C15_EarlyExit ==
    [][(pc = "loop" /\ pass >= 1 /\ work.pushed = {}) => pc' = "done"]_vars

\* C15: there is no early exit: between two passes pack_bubbles begins the
\* next pass whenever fewer than `iterations` passes have been made, whether
\* or not the last pass found an overlapping pair, and it returns only when
\* `iterations` passes have been made.
C15_NoEarlyExit ==
    [][pc = "loop" =>
         IF pass < iterations
         THEN pc' \in {"pair", "clip"} /\ pass' = pass
         ELSE pc' = "done" /\ pass = iterations]_vars

\* a pass of a call with two items is under way although the pass before it
\* found no overlapping pair
C15_Witness ==
    /\ pc = "clip"
    /\ n = 2
    /\ pass >= 1
    /\ work.clean
    /\ work.order = <<<<1, 2>>>>

RECURSIVE LexFrom(_, _, _)
\* the pairs (a, b), (a, b + 1), ... of 1 .. m in lexicographic order
LexFrom(a, b, m) ==
    IF a >= m THEN <<>>
    ELSE IF b > m THEN LexFrom(a + 1, a + 2, m)
    ELSE <<<<a, b>>>> \o LexFrom(a, b + 1, m)

\* the pairs the pass has examined and the pair it examines next
Visited == IF pc = "pair" THEN Append(work.order, <<i, j>>) ELSE work.order

\* C16: a call makes at most `iterations` passes and returns after exactly
\* that many; a pass examines the pairs i < j in lexicographic order, each
\* exactly once (n(n-1)/2 pairs when the pass is complete), and each pair is
\* examined with the positions the earlier pushes of the pass have left.
C16_BoundedWork ==
    [][/\ pc' \in {"loop", "pair", "clip", "done"} => pass' <= iterations'
       /\ pc' = "done" => pass' = iterations'
       /\ pc' \in {"pair", "clip"} =>
            /\ Len(Visited') <= (n' * (n' - 1)) \div 2
            /\ Visited' = SubSeq(LexFrom(1, 2, n'), 1, Len(Visited'))
       /\ pc' = "clip" =>
            /\ Len(work'.order) = (n' * (n' - 1)) \div 2
            /\ {work'.order[k] : k \in 1 .. Len(work'.order)} = ItemPairs'
       /\ pc = "pair" =>
            positions' = PushPair(positions, radii, i, j, rng).pos]_vars

\* a call with three items has returned after the largest budget, and in its
\* last pass the push of the pair (1, 2) was seen by the check of a later pair
C16_Witness ==
    /\ pc = "done"
    /\ n = 3
    /\ pass = MaxIter
    /\ work.order = <<<<1, 2>>, <<1, 3>>, <<2, 3>>>>
    /\ <<1, 2>> \in work.pushed
    /\ Cardinality(work.pushed) >= 2

\* C17: the positions are clamped exactly once per pass, by the step that
\* ends the pass after all its pairs have been examined; the steps that begin
\* a pass or examine a pair never clamp, so a position pushed out of the
\* canvas stays there for the later pairs of the pass; after the clamp every
\* position that is a number lies in the canvas.
C17_ClampOrdering ==
    [][/\ pc = "loop" => positions' = positions
       /\ pc = "pair" =>
            /\ positions' = PushPair(positions, radii, i, j, rng).pos
            /\ pass' = pass
       /\ pc = "clip" =>
            /\ work.order = LexFrom(1, 2, n)
            /\ positions' = Clip(positions)
            /\ pass' = pass + 1
            /\ pc' = "loop"
            /\ \A k \in 1 .. n : \A c \in 1 .. 2 :
                  IsNaN(positions'[k][c]) \/ InCanvas(positions'[k][c])]_vars

\* a pass has ended in which a pair was pushed, was radius + radius + padding
\* apart before the clamp (up to Eps grid steps) and is closer than that after
\* the clamp
C17_Witness ==
    /\ pc = "loop"
    /\ pass >= 1
    /\ \E p \in work.pushed :
          /\ FGeq(Dist(work.before, p[1], p[2]), MinDist(radii, p[1], p[2]) - Eps)
          /\ FLess(Dist(positions, p[1], p[2]), MinDist(radii, p[1], p[2]) - Eps)

\* C18: when the request of fetch_gmp_data fails (connection error, HTTP
\* error status, body that is not JSON) fetch_gmp_data returns the empty list
\* and the page ends with the no-data warning: compute_volumes and
\* pack_bubbles are not called and no table is built; and before the Fetch
\* Data button is pressed nothing is fetched or computed.
C18_FetchFailure ==
    /\ page.outcome \notin {"none", "ok"} =>
          /\ page.data = <<>>
          /\ ~page.computed
          /\ df = NoTable
          /\ sizes = <<>> /\ positions = <<>>
          /\ pc \in {"fetched", "end"}
          /\ pc = "end" => page.shown = {"error", "warning"}
    /\ ~page.run_button =>
          /\ page.outcome = "none"
          /\ ~page.computed
          /\ df = NoTable
          /\ sizes = <<>> /\ positions = <<>>
          /\ pc \in {"script", "end"}

\* the button was pressed, the API answered with an error status, and the
\* page has ended with the warning
C18_Witness ==
    /\ pc = "end"
    /\ page.run_button
    /\ page.outcome = "HTTPError"
    /\ "warning" \in page.shown
    /\ ~page.computed

\* C19: a pass that began with all positions in the canvas and has examined
\* all pairs without finding an overlap ends with the positions it began
\* with; and once such a pass has been made, no later step of the call
\* changes a position, every later pass is such a pass again, and the call
\* returns the positions of that pass.
C19_FixedPoint ==
    [][/\ (pc = "clip" /\ work.pushed = {} /\ AllInCanvas(work.start)) =>
            /\ positions' = work.start
            /\ work'.clean
       /\ (work.clean /\ pc \in {"loop", "pair", "clip"}) =>
            /\ positions' = positions
            /\ work'.pushed = {}
            /\ pc' = "done" => /\ ret'.xs = [k \in 1 .. n |-> work.before[k][1]]
                               /\ ret'.ys = [k \in 1 .. n |-> work.before[k][2]]]_vars

\* a call with three items: an early pass pushed a pair, a later pass found
\* no overlap, and the pass after that one has examined all pairs
C19_Witness ==
    /\ pc = "clip"
    /\ n = 3
    /\ work.clean
    /\ Len(work.order) = 3
    /\ positions = work.start
    /\ positions # InitPositions(n, hist.rng0)
    /\ \E k \in 1 .. n : radii[k] > 0

\* C20: a step that examines the pair (i, j) leaves the radii and the
\* position of every other item unchanged; when the pair overlaps the
\* midpoint of i and j is the same before and after the step, and when it
\* does not overlap no position changes.
C20_PushFrame ==
    [][pc = "pair" =>
         /\ radii' = radii
         /\ \A k \in (1 .. n) \ {i, j} : positions'[k] = positions[k]
         /\ Overlaps(positions, radii, i, j) =>
               \A c \in 1 .. 2 :
                  FAdd(positions'[i][c], positions'[j][c]) = positions[i][c] + positions[j][c]
         /\ ~Overlaps(positions, radii, i, j) => positions' = positions]_vars

RECURSIVE SumSeq(_)
\* the sum of a column
SumSeq(col) == IF col = <<>> THEN 0 ELSE col[1] + SumSeq(Tail(col))

\* the destination records of data, each with the key of its source
Flows(data) ==
    {[src |-> k, dst |-> d] : k \in 1 .. Len(data), d \in 1 .. 2} \cap
    {f \in [src : 1 .. Len(data), dst : 1 .. 2] :
        f.dst <= Len(data[f.src].destination_chains)}

RECURSIVE SumFlows(_, _)
\* the sum of the volumes of a set of destination records
SumFlows(data, fs) ==
    IF fs = {} THEN 0
    ELSE LET f == CHOOSE g \in fs : TRUE
         IN data[f.src].destination_chains[f.dst].volume + SumFlows(data, fs \ {f})

\* C21: in the combined table of compute_volumes the incoming volumes and the
\* outgoing volumes both sum to the sum of all destination volumes of the
\* response, and the net_volume column sums to zero.
C21_Conservation ==
    page.computed =>
        /\ SumSeq(df.volume_in) = SumFlows(page.data, Flows(page.data))
        /\ SumSeq(df.volume_out) = SumFlows(page.data, Flows(page.data))
        /\ SumSeq(df.net_volume) = 0

\* the table was computed from a source record that has two destinations
\* with a positive volume, and it has a row whose net volume is not zero
C21_Witness ==
    /\ page.computed
    /\ \E k \in 1 .. Len(page.data) :
          /\ Len(page.data[k].destination_chains) = 2
          /\ \A d \in 1 .. 2 : page.data[k].destination_chains[d].volume > 0
    /\ \E a \in 1 .. Len(df.net_volume) : df.net_volume[a] > 0

\* the destination records of data that leave chain c
FlowsOut(data, c) == {f \in Flows(data) : data[f.src].key = c}

\* the destination records of data that arrive at chain c
FlowsIn(data, c) ==
    {f \in Flows(data) : data[f.src].destination_chains[f.dst].key = c}

\* C22: in the combined table of compute_volumes no chain has two rows; a
\* row's volume_in is the volume the response sends to its chain and its
\* volume_out the volume the response sends from it (0 when there is none),
\* one of the two is positive, and net_volume = volume_in - volume_out; a
\* chain is in the table exactly when one of its two volumes is positive.
C22_CombinedTable ==
    page.computed =>
        /\ \A a, b \in 1 .. Len(df.chain) : df.chain[a] = df.chain[b] => a = b
        /\ \A a \in 1 .. Len(df.chain) :
              /\ df.volume_in[a] = SumFlows(page.data, FlowsIn(page.data, df.chain[a]))
              /\ df.volume_out[a] = SumFlows(page.data, FlowsOut(page.data, df.chain[a]))
              /\ df.volume_in[a] > 0 \/ df.volume_out[a] > 0
              /\ df.net_volume[a] = df.volume_in[a] - df.volume_out[a]
        /\ \A c \in 1 .. Len(ChainNames) :
              (\E a \in 1 .. Len(df.chain) : df.chain[a] = ChainNames[c])
              <=> \/ SumFlows(page.data, FlowsIn(page.data, ChainNames[c])) > 0
                  \/ SumFlows(page.data, FlowsOut(page.data, ChainNames[c])) > 0

\* the table has a row of a chain that only sends and a row of a chain that
\* only receives, and the response also holds a destination of volume 0
C22_Witness ==
    /\ page.computed
    /\ Len(df.chain) = 2
    /\ \E a, b \in 1 .. 2 :
          /\ df.volume_in[a] = 0 /\ df.volume_out[a] > 0
          /\ df.volume_out[b] = 0 /\ df.volume_in[b] > 0
    /\ \E f \in Flows(page.data) :
          page.data[f.src].destination_chains[f.dst].volume = 0

\* C23: whatever the two requests of the Chain Analysis page return, both
\* fetched tables have the seven chart columns, and when the page does not
\* stop the KPI step finds "volume" and "num_txs" in both aggregated tables
\* and raises no KeyError.
C23_ChainColumns ==
    pc \in {"chain_fetched", "chain_kpi", "charts", "KeyError", "end"} =>
        /\ ChartColumns \subseteq page.df_out.columns
        /\ ChartColumns \subseteq page.df_in.columns
        /\ pc \in {"chain_kpi", "charts"} =>
              {"volume", "num_txs"} \subseteq
                  (page.df_out_agg.columns \cap page.df_in_agg.columns)
        /\ pc # "KeyError"

\* the records of data whose timestamp parses
Parsed(data) ==
    {k \in 1 .. Len(data) :
        /\ "timestamp" \in DOMAIN data[k]
        /\ safe_parse_timestamp(data[k].timestamp) # NaT}

RECURSIVE SumRecords(_, _, _)
\* the sum of key c over the records ks of data, a missing key counted as 0
SumRecords(data, ks, c) ==
    IF ks = {} THEN 0
    ELSE LET k == CHOOSE m \in ks : TRUE
         IN (IF c \in DOMAIN data[k] THEN data[k][c] ELSE 0)
            + SumRecords(data, ks \ {k}, c)

\* C24: on the Interchain Chart page, for every timeframe, every numeric
\* column of the aggregated table sums to the sum of that column over the
\* fetched records whose timestamp parses, and the two displayed totals are
\* those sums for num_txs and volume; a failed or empty fetch gives totals 0.
C24_TotalsPreserved ==
    /\ pc \in {"chart_kpi", "charts"} =>
          \A c \in num_cols :
             ColumnSum(page.df_agg.rows, c) = SumRecords(page.data, Parsed(page.data), c)
    /\ pc = "charts" =>
          /\ page.total_txs = SumRecords(page.data, Parsed(page.data), "num_txs")
          /\ page.total_volume = SumRecords(page.data, Parsed(page.data), "volume")
          /\ (page.outcome # "ok" \/ page.data = <<>>) =>
                page.total_txs = 0 /\ page.total_volume = 0

\* the totals are shown for a monthly chart of two records that lie in
\* different months, one of them without the optional columns
C24_Witness ==
    /\ pc = "charts"
    /\ page.timeframe = "month"
    /\ Len(page.df_agg.rows) = 2
    /\ page.total_txs = 4
    /\ \E k \in 1 .. 2 : "gmp_volume" \notin DOMAIN page.data[k]

\* C25: fetch_chain is memoised per (chain, mode) and its cache never expires;
\* a failed request is cached as {Transfers: 0, Volume: 0}; a later call with
\* a key that was called before returns the stored value and issues no
\* request, also when the first request failed; a failed get_token_info
\* raises and leaves nothing in its cache
C25_CachedDefaults ==
    [][LET key == page'.last.key
           chainCall == page'.last.fn = "fetch_chain" /\ page'.token = page.token
           tokenCall == page'.last.fn = "get_token_info" /\ page'.last # page.last
       IN /\ \A k \in DOMAIN page.cache :
                 k \in DOMAIN page'.cache /\ page'.cache[k] = page.cache[k]
          /\ chainCall =>
                 /\ key \in DOMAIN page'.cache
                 /\ page'.last.value = page'.cache[key]
                 /\ key \in DOMAIN page.cache =>
                        /\ ~page'.last.requested
                        /\ page'.cache = page.cache
                 /\ key \notin DOMAIN page.cache =>
                        /\ page'.last.requested
                        /\ page'.last.outcome # "ok" =>
                               page'.cache[key] = [Transfers |-> 0, Volume |-> 0]
          /\ tokenCall =>
                 /\ page'.cache = page.cache
                 /\ page'.last.requested /\ page'.last.outcome # "ok" => page'.last.raised
                 /\ page'.last.raised => ~page'.token.stored
                 /\ page'.token.stored => page'.token.value \in TokenBodies]_vars

\* a call for a key whose first request failed is answered from the cache
\* with the zeros, after a call of get_token_info has raised and stored nothing
C25_Witness ==
    /\ pc = "overview"
    /\ page.last.fn = "fetch_chain"
    /\ page.last.key \in page.failed
    /\ ~page.last.requested
    /\ page.last.value = [Transfers |-> 0, Volume |-> 0]
    /\ \E k \in DOMAIN page.cache : page.cache[k].Volume > 0
    /\ page.raised
    /\ ~page.token.stored

=============================================================================
